---- MODULE Spec2Model ----
(***************************************************************************)
(* Model of src/coverage-system/coverageservice.ts: the CoverageService    *)
(* (cache orchestration, refresh cycles, subscriptions) and the           *)
(* StatusBarToggler (presentation state) it drives.                        *)
(*                                                                         *)
(* Every `await` of the source is a suspension point: the code up to an    *)
(* await is one atomic step, the code after it is a later step of the same *)
(* refresh cycle.  While a collaborator's promise is pending, steps of     *)
(* other cycles, public calls and notifications interleave freely.         *)
(***************************************************************************)
EXTENDS Integers, Sequences, FiniteSets, TLC

\* ------------------------------------------------------------------ bounds
MaxCycles == 2          \* refresh cycles (loadCacheAndProcess calls) per run

\* ------------------------------------------------- JavaScript value model
\* A JS number | undefined, tagged so that values of different kinds compare.
Num(n) == [k |-> "number", v |-> n]
NaN == [k |-> "NaN", v |-> 0]
Infinity == [k |-> "Infinity", v |-> 0]
Undefined == [k |-> "undefined", v |-> 0]

\* Number.isFinite(x)
IsFinite(x) == x.k = "number"

\* x || d  for a number | undefined x
OrDefault(x, d) == IF x.k = "number" /\ x.v # 0 THEN x ELSE d

\* a + b on JS numbers (undefined and NaN poison the sum)
JsAdd(a, b) ==
    IF a.k = "number" /\ b.k = "number" THEN Num(a.v + b.v)
    ELSE IF a.k \in {"NaN", "undefined"} \/ b.k \in {"NaN", "undefined"} THEN NaN
    ELSE Infinity

\* ---- IEEE 754 binary64 arithmetic on positive values, bit by bit.  A double
\* is [m, e]: the 53-bit mantissa m, most significant bit first, times 2^e.
MantissaBits == 53

RECURSIVE ScaleUp(_, _, _)
\* <<a * 2^(-e), e>> with a * 2^(-e) >= b, for 0 < a < b
ScaleUp(a, b, e) == IF a >= b THEN <<a, e>> ELSE ScaleUp(2 * a, b, e - 1)

RECURSIVE ScaleDown(_, _, _)
\* <<b * 2^e, e>> with b * 2^e <= a < b * 2^(e+1), for a >= b > 0
ScaleDown(a, b, e) == IF 2 * b > a THEN <<b, e>> ELSE ScaleDown(a, 2 * b, e + 1)

RECURSIVE QuotientBits(_, _, _)
\* the next n bits of the binary expansion of r / b (r < b), followed by the
\* remainder left after them
QuotientBits(r, b, n) ==
    IF n = 0 THEN <<r>>
    ELSE IF 2 * r >= b THEN <<1>> \o QuotientBits(2 * r - b, b, n - 1)
    ELSE <<0>> \o QuotientBits(2 * r, b, n - 1)

RECURSIVE Increment(_)
\* bits + 1; a carry out of the top bit lengthens the string
Increment(bits) ==
    IF bits = <<>> THEN <<1>>
    ELSE IF bits[Len(bits)] = 0 THEN SubSeq(bits, 1, Len(bits) - 1) \o <<1>>
    ELSE Increment(SubSeq(bits, 1, Len(bits) - 1)) \o <<0>>

\* Round to nearest, ties to even: `bits` followed by the dropped bits `low`
\* (sticky: something nonzero follows low).  <<mantissa, exponent carry>>
RoundNearestEven(bits, low, sticky) ==
    LET guard == IF low = <<>> THEN 0 ELSE low[1]
        more == sticky \/ \E i \in 2..Len(low) : low[i] = 1
        up == guard = 1 /\ (more \/ bits[Len(bits)] = 1)
        inc == Increment(bits)
    IN IF ~up THEN <<bits, 0>>
       ELSE IF Len(inc) > Len(bits) THEN <<SubSeq(inc, 1, Len(bits)), 1>>
       ELSE <<inc, 0>>

\* a / b  for integers a > 0, b > 0
DoubleQuotient(a, b) ==
    LET s == IF a >= b THEN <<a, ScaleDown(a, b, 0)[1], ScaleDown(a, b, 0)[2]>>
             ELSE <<ScaleUp(a, b, 0)[1], b, ScaleUp(a, b, 0)[2]>>
        q == QuotientBits(s[1] - s[2], s[2], MantissaBits)
        r == RoundNearestEven(<<1>> \o SubSeq(q, 1, MantissaBits - 1),
                              <<q[MantissaBits]>>, q[MantissaBits + 1] # 0)
    IN [m |-> r[1], e |-> s[3] - (MantissaBits - 1) + r[2]]

RECURSIVE TimesSmall(_, _, _)
\* bits * k with carry c for a small integer k, least significant bit first
TimesSmall(lsbFirst, k, c) ==
    IF lsbFirst = <<>>
    THEN IF c = 0 THEN <<>> ELSE <<c % 2>> \o TimesSmall(<<>>, k, c \div 2)
    ELSE <<(k * Head(lsbFirst) + c) % 2>>
         \o TimesSmall(Tail(lsbFirst), k, (k * Head(lsbFirst) + c) \div 2)

Reverse(s) == [i \in 1..Len(s) |-> s[Len(s) + 1 - i]]

\* x * k  for a double x > 0 and a small integer k > 0
DoubleTimes(x, k) ==
    LET p == Reverse(TimesSmall(Reverse(x.m), k, 0))
        r == RoundNearestEven(SubSeq(p, 1, MantissaBits),
                              SubSeq(p, MantissaBits + 1, Len(p)), FALSE)
    IN [m |-> r[1], e |-> x.e + (Len(p) - MantissaBits) + r[2]]

RECURSIVE BitsValue(_, _)
\* the integer a bit string denotes, on top of the accumulated acc
BitsValue(bits, acc) ==
    IF bits = <<>> THEN acc ELSE BitsValue(Tail(bits), 2 * acc + Head(bits))

\* Math.round(x) for a double 0 < x < 2^31: the integer part plus the first
\* fraction bit (a half rounds up)
MathRound(x) ==
    IF MantissaBits + x.e < 0 THEN 0
    ELSE BitsValue(SubSeq(x.m, 1, MantissaBits + x.e), 0)
         + (IF x.e < 0 THEN x.m[MantissaBits + x.e + 1] ELSE 0)

\* RoundPercent with a fault: a division by zero yields 0.
RoundPercentOfNothing(a, b) ==
    IF a.k # "number" \/ b.k # "number" THEN NaN
    ELSE IF b.v = 0 \/ a.v = 0 THEN Num(0)
    ELSE Num((200 * a.v + b.v) \div (2 * b.v))

RECURSIVE IsPowerOfTwo(_)
IsPowerOfTwo(n) == n = 1 \/ (n > 1 /\ n % 2 = 0 /\ IsPowerOfTwo(n \div 2))

\* Math.round((a / b) * 100) for non-negative integer counts a, b (or
\* undefined).  The division and the multiplication each round to a double;
\* both are exact when b is a power of two, and the bits are then not spelled
\* out.
RoundPercent(a, b) ==
    IF a.k # "number" \/ b.k # "number" THEN NaN
    ELSE IF b.v = 0 THEN (IF a.v = 0 THEN NaN ELSE Infinity)
    ELSE IF a.v = 0 THEN Num(0)
    ELSE IF IsPowerOfTwo(b.v) THEN Num((200 * a.v + b.v) \div (2 * b.v))
    ELSE Num(MathRound(DoubleTimes(DoubleQuotient(a.v, b.v), 100)))

\* `${n}` for a finite integer n
Str(x) == ToString(x.v)

\* An optional value: <<>> is undefined, <<v>> is v.
Absent == <<>>
Some(v) == <<v>>
IsSome(o) == o # <<>>
Get(o) == o[1]

\* ------------------------------------------------------- StatusBarToggler
coverageText == "Cov"
loadingText == "$(loading~spin)" \o " " \o coverageText
idleIcon == "$(circle-large-outline)"
watchCommand == "coverage-gutters.watchCoverageAndVisibleEditors"
watchText == idleIcon \o " " \o "Watch"
watchToolTip == "Coverage Gutters: Click to watch workspace."
removeCommand == "coverage-gutters.removeWatch"
removeWatchToolTip == "Coverage Gutters: Click to remove watch from workspace."
errorBackground == "statusBarItem.errorBackground"

LineWarnBelow == 60
BranchWarnBelow == 40

\* getStatusBarText()
getStatusBarText(sb) ==
    IF sb.isLoading THEN loadingText
    ELSE IF sb.isActive = Some(TRUE)
         THEN idleIcon \o " "
              \o (IF IsSome(sb.lineCoverage) THEN Get(sb.lineCoverage) ELSE "No")
              \o " " \o coverageText
         ELSE watchText

\* update(): recompute the status bar item from the four fields
update(sb) ==
    [sb EXCEPT !.item =
        [text |-> getStatusBarText(sb),
         command |-> IF sb.isActive = Some(TRUE) THEN removeCommand ELSE watchCommand,
         tooltip |-> IF sb.isActive = Some(TRUE) THEN removeWatchToolTip ELSE watchToolTip,
         backgroundColor |-> IF sb.isWarn /\ sb.isActive = Some(TRUE)
                             THEN Some(errorBackground) ELSE Absent]]

\* new StatusBarToggler(configStore)
NewStatusBar ==
    [isActive |-> Absent, isLoading |-> FALSE, lineCoverage |-> Absent, isWarn |-> FALSE,
     item |-> [text |-> watchText, command |-> watchCommand, tooltip |-> watchToolTip,
               backgroundColor |-> Absent]]

\* toggle with a fault: the item is not recomputed.
toggleWithoutUpdate(sb, active) == [sb EXCEPT !.isActive = Some(active)]

\* toggle(active)
toggle(sb, active) == update([sb EXCEPT !.isActive = Some(active)])

\* setLoading(loading)
setLoading(sb, loading) == update([sb EXCEPT !.isLoading = loading])

\* setCoverage with a fault: isWarn is not reset at the start of the call.
setCoverageKeepsWarn(sb, line, totalLine, branch, totalBranch) ==
    LET four == IsFinite(line) /\ IsFinite(totalLine)
                /\ IsFinite(branch) /\ IsFinite(totalBranch)
        warn == IF four /\ (OrDefault(totalLine, Num(0)).v < LineWarnBelow
                            \/ OrDefault(totalBranch, Num(0)).v < BranchWarnBelow)
                THEN TRUE ELSE sb.isWarn
        text == IF ~IsFinite(line) THEN Absent
                ELSE IF ~IsFinite(totalLine) THEN Some(Str(line) \o "%")
                ELSE IF four
                     THEN Some(Str(line) \o "," \o Str(branch) \o "%/"
                               \o Str(totalLine) \o "," \o Str(totalBranch) \o "%")
                     ELSE Some(Str(line) \o "%/" \o Str(totalLine) \o "%")
    IN update([sb EXCEPT !.isWarn = warn, !.lineCoverage = text])

\* setCoverage(linePercentage, totalLinePercentage, branchPercentage,
\*             totalBranchPercentage)
setCoverage(sb, line, totalLine, branch, totalBranch) ==
    LET reset == [sb EXCEPT !.isWarn = FALSE]
        next ==
            IF IsFinite(line)
            THEN IF IsFinite(totalLine)
                 THEN IF IsFinite(branch) /\ IsFinite(totalBranch)
                      THEN [reset EXCEPT
                              !.isWarn =
                                  (OrDefault(totalLine, Num(0)).v < LineWarnBelow
                                   \/ OrDefault(totalBranch, Num(0)).v < BranchWarnBelow),
                              !.lineCoverage =
                                  Some(Str(line) \o "," \o Str(branch) \o "%/"
                                       \o Str(totalLine) \o "," \o Str(totalBranch) \o "%")]
                      ELSE [reset EXCEPT
                              !.lineCoverage =
                                  Some(Str(line) \o "%/" \o Str(totalLine) \o "%")]
                 ELSE [reset EXCEPT !.lineCoverage = Some(Str(line) \o "%")]
            ELSE [reset EXCEPT !.lineCoverage = Absent]
    IN update(next)

\* ------------------------------------------------------- Sections, cache
Paths == {"a.ts", "b.ts"}

Counts(h, f) == [hit |-> Num(h), found |-> Num(f)]

\* Section of lcov-parse: lines {hit, found}; branches may be absent.
Section(lines, branches) == [lines |-> lines, branches |-> branches]

\* The coverage of the two files in the service specification: one Section
\* without branch data, one with.
FileSection ==
    [p \in Paths |->
        IF p = "a.ts" THEN Section(Some(Counts(1, 2)), Absent)
        ELSE Section(Some(Counts(2, 2)), Some(Counts(1, 2)))]

\* new Map()
EmptyMap == [p \in {} |-> Absent]

\* The mappings filesToSections() resolves with in the service specification:
\* no file, or one file's Section.
ParsedMaps == {[p \in D |-> FileSection[p]] : D \in {{}} \cup {{p} : p \in Paths}}

Range(f) == {f[x] : x \in DOMAIN f}

\* o?.group  for an optional Section o: the optional {hit, found} record
OptField(o, name) == IF IsSome(o) THEN Get(o)[name] ELSE Absent

\* o?.field  for an optional {hit, found} record o
Field(o, name) == IF IsSome(o) THEN Get(o)[name] ELSE Undefined

RECURSIVE SumOverWithoutDefault(_, _, _, _)
\* SumOver with a fault: a missing count is never replaced by 0.
SumOverWithoutDefault(sections, keys, group, defaulted) ==
    IF keys = {} THEN Num(0)
    ELSE LET key == CHOOSE x \in keys : TRUE
         IN JsAdd(SumOverWithoutDefault(sections, keys \ {key}, group, defaulted),
                  Field(sections[key][group[1]], group[2]))

RECURSIVE SumOver(_, _, _, _)
\* sections.forEach(it => total += it?.[group]?.[field] (|| 0 when defaulted))
SumOver(sections, keys, group, defaulted) ==
    IF keys = {} THEN Num(0)
    ELSE LET key == CHOOSE x \in keys : TRUE
             raw == Field(sections[key][group[1]], group[2])
             term == IF defaulted THEN OrDefault(raw, Num(0)) ELSE raw
         IN JsAdd(SumOver(sections, keys \ {key}, group, defaulted), term)

\* ------------------------------------------------------- collaborators
\* SectionFinder.findSectionsForEditor(textEditor, sections): the possible
\* results, an ordered sequence of zero or more Sections of the cache.  The
\* service reads the first element only, so one element is enumerated.
findSectionsForEditor(sections) == {<<>>} \cup {<<s>> : s \in Range(sections)}

\* ------------------------------------------------------- aggregate
\* The arguments setStatusBarCoverage hands to statusBar.setCoverage.
\* hasEditor: window.activeTextEditor is defined; lookupThrows: the lookup
\* raised; matches: the lookup's result.
StatusBarCoverageArgs(sections, hasEditor, lookupThrows, matches) ==
    IF ~hasEditor \/ lookupThrows
    THEN <<Undefined, Undefined, Undefined, Undefined>>
    ELSE LET fileCoverage == IF matches = <<>> THEN Absent ELSE Some(matches[1])
             covered == Field(OptField(fileCoverage, "lines"), "hit")
             total == Field(OptField(fileCoverage, "lines"), "found")
             b_covered == OrDefault(Field(OptField(fileCoverage, "branches"), "hit"), Num(0))
             b_total == OrDefault(Field(OptField(fileCoverage, "branches"), "found"), Num(1))
             total_lines_hit == SumOver(sections, DOMAIN sections, <<"lines", "hit">>, FALSE)
             total_lines_found == SumOver(sections, DOMAIN sections, <<"lines", "found">>, FALSE)
             total_branches_hit == SumOver(sections, DOMAIN sections, <<"branches", "hit">>, TRUE)
             total_branches_found == SumOver(sections, DOMAIN sections, <<"branches", "found">>, TRUE)
             coverage == RoundPercent(covered, total)
             total_coverage == IF total_lines_found = Num(0) THEN Num(0)
                               ELSE RoundPercent(total_lines_hit, total_lines_found)
             b_coverage == RoundPercent(b_covered, b_total)
             b_total_coverage == IF total_branches_found = Num(0) THEN Num(0)
                                 ELSE RoundPercent(total_branches_hit, total_branches_found)
         IN <<coverage, total_coverage, b_coverage, b_total_coverage>>

\* What one setStatusBarCoverage call met: whether an editor was active,
\* whether the lookup raised, and the lookup's result (not called without an
\* editor, without a result when it raised).
EditorLookup(hasEditor, lookupThrows, matches) ==
    [hasEditor |-> hasEditor,
     lookupThrows |-> hasEditor /\ lookupThrows,
     matches |-> IF hasEditor /\ ~lookupThrows THEN matches ELSE <<>>]

\* setStatusBarCoverage(sections, textEditor): the presenter after the push
setStatusBarCoverage(sb, args) == setCoverage(sb, args[1], args[2], args[3], args[4])

\* ------------------------------------------------------- CoverageService
\* enum Status
Status == [ready |-> "READY", initializing |-> "INITIALIZING", loading |-> "LOADING",
           rendering |-> "RENDERING", error |-> "ERROR"]

VARIABLES
    statusBar,            \* the StatusBarToggler the service drives
    cache,                \* this.cache
    isCoverageDisplayed,  \* this.isCoverageDisplayed
    coverageWatcher,      \* this.coverageWatcher: the watcher last created, if any
    editorWatcher,        \* this.editorWatcher: the subscription last created, if any
    fsSubscriptions,      \* file system watchers created and not disposed
    editorSubscriptions,  \* editor-focus subscriptions created and not disposed
    cycles,               \* the loadCacheAndProcess calls: position and awaiting caller
    serviceState,         \* the Status last handed to updateServiceState
    lastOp,               \* the operation or continuation the last step ran
    parsed,               \* the dataCoverage filesToSections() resolved with in the last step
    renderCalls,          \* the mappings handed to renderer.renderCoverage in the last step
    coveragePushes,       \* the arguments of statusBar.setCoverage calls in the last step
    editorLookup,         \* what the last step's setStatusBarCoverage found for the editor
    stateLog              \* the Status values logged in the last step

vars == <<statusBar, cache, isCoverageDisplayed, coverageWatcher, editorWatcher,
          fsSubscriptions, editorSubscriptions, cycles, serviceState, lastOp,
          parsed, renderCalls, coveragePushes, editorLookup, stateLog>>

CycleIds == 1..MaxCycles

\* Positions of a cycle at which an asynchronous collaborator call is pending.
Suspended == {"findCoverageFiles", "loadDataFiles", "filesToSections"}
\* Positions between loadCache() settling and the last continuation of the
\* callers awaiting it.
Continuing == {"loaded", "rejected", "processed", "displayed"}
\* Positions of a cycle that has terminated.
Finished == {"fulfilled", "failed", "renderFailed"}
\* Positions a cycle reaches only after its cache assignment.
Assigned == {"loaded", "processed", "displayed", "fulfilled", "renderFailed"}

Started == {c \in CycleIds : cycles[c].pc # "unstarted"}
InFlight == {c \in CycleIds : cycles[c].pc \in Suspended \cup Continuing}

\* The caller awaiting a cycle is "none" for a watcher's notification (the
\* handler is loadCacheAndProcess itself), "displayForFile" (called directly or
\* by toggleCoverage(), which does nothing after it), or "watchWorkspace".

\* The continuation of an await whose promise has settled runs as a microtask,
\* before the host delivers the next command, notification or I/O completion:
\* nothing else starts while a cycle stands at a Continuing position.
HostIdle == \A c \in CycleIds : cycles[c].pc \notin Continuing

\* updateServiceState(state), for the states a step logs in order
Logged(states) ==
    /\ stateLog' = states
    /\ serviceState' = IF states = <<>> THEN serviceState ELSE states[Len(states)]

\* What a step that renders nothing and pushes nothing leaves behind.
Quiet(name) ==
    /\ lastOp' = name
    /\ parsed' = Absent
    /\ renderCalls' = <<>>
    /\ coveragePushes' = <<>>
    /\ editorLookup' = Absent

\* constructor
Init ==
    /\ statusBar = NewStatusBar
    /\ cache = EmptyMap
    /\ isCoverageDisplayed = FALSE
    /\ coverageWatcher = Absent
    /\ editorWatcher = Absent
    /\ fsSubscriptions = {}
    /\ editorSubscriptions = {}
    /\ cycles = [c \in CycleIds |-> [pc |-> "unstarted", caller |-> "none"]]
    /\ serviceState = Status.initializing
    /\ lastOp = "constructor"
    /\ parsed = Absent
    /\ renderCalls = <<>>
    /\ coveragePushes = <<>>
    /\ editorLookup = Absent
    /\ stateLog = <<Status.initializing>>

\* AssignCache with a fault: the parsed entries are merged into the old cache.
MergeIntoCache(old, dataCoverage) ==
    [p \in DOMAIN old \cup DOMAIN dataCoverage |->
        IF p \in DOMAIN dataCoverage THEN dataCoverage[p] ELSE old[p]]

\* this.cache = dataCoverage
AssignCache(old, dataCoverage) == dataCoverage

\* ResetCache with a fault: dispose keeps the cache.
KeepCache(old) == old

\* this.cache = new Map()
ResetCache(old) == EmptyMap

\* ReleaseLoading with a fault: the loading flag is not cleared.
KeepLoading(sb) == sb

\* finally { this.statusBar.setLoading(false); }
ReleaseLoading(sb) == setLoading(sb, FALSE)

\* loadCacheAndProcess() up to its first suspension: setLoading(true), then
\* loadCache() logs LOADING and awaits findCoverageFiles().
StartCycle(name, caller) ==
    /\ HostIdle
    /\ Cardinality(Started) < MaxCycles
    /\ cycles' = [cycles EXCEPT ![Cardinality(Started) + 1] =
                     [pc |-> "findCoverageFiles", caller |-> caller]]
    /\ statusBar' = setLoading(statusBar, TRUE)
    /\ Logged(<<Status.loading>>)
    /\ Quiet(name)
    /\ UNCHANGED <<cache, isCoverageDisplayed, coverageWatcher, editorWatcher,
                   fsSubscriptions, editorSubscriptions>>

\* displayForFile(), called directly
DisplayForFile == StartCycle("displayForFile", "displayForFile")

\* watchWorkspace()
WatchWorkspace == StartCycle("watchWorkspace", "watchWorkspace")

\* The body of removeCoverageForCurrentEditor(): the try block renders the
\* empty mapping and the finally block runs whether or not the renderer throws.
RemoveBody(name, newCache) ==
    /\ HostIdle
    /\ renderCalls' = <<EmptyMap>>
    /\ statusBar' = ReleaseLoading(setLoading(statusBar, TRUE))
    /\ isCoverageDisplayed' = FALSE
    /\ cache' = newCache
    /\ lastOp' = name
    /\ parsed' = Absent
    /\ coveragePushes' = <<>>
    /\ editorLookup' = Absent
    /\ Logged(<<>>)
    /\ UNCHANGED <<coverageWatcher, editorWatcher, fsSubscriptions,
                   editorSubscriptions, cycles>>

\* RemoveCoverageForCurrentEditor with a fault: the cache is discarded too.
RemoveDiscardsCache == RemoveBody("removeCoverageForCurrentEditor", EmptyMap)

\* removeCoverageForCurrentEditor()
RemoveCoverageForCurrentEditor == RemoveBody("removeCoverageForCurrentEditor", cache)

\* ToggleCoverage with a fault: a displayed coverage is refreshed, not removed.
ToggleAlwaysDisplays == StartCycle("toggleCoverage", "displayForFile")

\* toggleCoverage()
ToggleCoverage ==
    IF isCoverageDisplayed
    THEN RemoveBody("toggleCoverage", cache)
    ELSE StartCycle("toggleCoverage", "displayForFile")

\* dispose(): the watcher fields are disposed, the cache is reset and rendered
Dispose ==
    /\ HostIdle
    /\ fsSubscriptions' = fsSubscriptions \ {w \in CycleIds : coverageWatcher = Some(w)}
    /\ editorSubscriptions' =
           editorSubscriptions \ {w \in CycleIds : editorWatcher = Some(w)}
    /\ cache' = ResetCache(cache)
    /\ renderCalls' = <<cache'>>
    /\ lastOp' = "dispose"
    /\ parsed' = Absent
    /\ coveragePushes' = <<>>
    /\ editorLookup' = Absent
    /\ Logged(<<>>)
    /\ UNCHANGED <<statusBar, isCoverageDisplayed, coverageWatcher, editorWatcher,
                   cycles>>

\* A notification of a registered file system watcher (onDidChange,
\* onDidCreate, onDidDelete are all bound to loadCacheAndProcess).
FileSystemNotification ==
    /\ fsSubscriptions # {}
    /\ StartCycle("fileSystem", "none")

\* A collaborator's promise of cycle c settles and loadCache() moves to pc.
Settles(c, name, pc) ==
    /\ HostIdle
    /\ cycles' = [cycles EXCEPT ![c].pc = pc]
    /\ Quiet(name)
    /\ Logged(<<>>)
    /\ UNCHANGED <<statusBar, cache, isCoverageDisplayed, coverageWatcher,
                   editorWatcher, fsSubscriptions, editorSubscriptions>>

\* findCoverageFiles() settles: loadCache() goes on to loadDataFiles(), or
\* the rejection leaves loadCache().
FindCoverageFilesSettles(c, ok) ==
    /\ cycles[c].pc = "findCoverageFiles"
    /\ Settles(c, "findCoverageFiles", IF ok THEN "loadDataFiles" ELSE "rejected")

\* loadDataFiles() settles: loadCache() goes on to filesToSections(), or rejects.
LoadDataFilesSettles(c, ok) ==
    /\ cycles[c].pc = "loadDataFiles"
    /\ Settles(c, "loadDataFiles", IF ok THEN "filesToSections" ELSE "rejected")

\* filesToSections() rejects: loadCache() rejects.
FilesToSectionsRejects(c) ==
    /\ cycles[c].pc = "filesToSections"
    /\ Settles(c, "filesToSections", "rejected")

\* filesToSections() resolves with dataCoverage: loadCache() assigns the cache
\* and logs READY.
FilesToSectionsResolves(c, dataCoverage) ==
    /\ HostIdle
    /\ cycles[c].pc = "filesToSections"
    /\ cycles' = [cycles EXCEPT ![c].pc = "loaded"]
    /\ cache' = AssignCache(cache, dataCoverage)
    /\ Logged(<<Status.ready>>)
    /\ lastOp' = "filesToSections"
    /\ parsed' = Some(dataCoverage)
    /\ renderCalls' = <<>>
    /\ coveragePushes' = <<>>
    /\ editorLookup' = Absent
    /\ UNCHANGED <<statusBar, isCoverageDisplayed, coverageWatcher, editorWatcher,
                   fsSubscriptions, editorSubscriptions>>

\* Render, aggregate push and READY, shared by loadCacheAndProcess() after
\* loadCache() and by handleEditorEvents(); the finally block clears the
\* loading flag whether or not the renderer throws.
RenderAndPush(sb, renderOk, hasEditor, lookupThrows, matches) ==
    /\ renderCalls' = <<cache>>
    /\ parsed' = Absent
    /\ IF renderOk
       THEN LET args == StatusBarCoverageArgs(cache, hasEditor, lookupThrows, matches)
            IN /\ coveragePushes' = <<args>>
               /\ editorLookup' = Some(EditorLookup(hasEditor, lookupThrows, matches))
               /\ statusBar' = ReleaseLoading(setStatusBarCoverage(sb, args))
               /\ Logged(<<Status.rendering, Status.ready>>)
       ELSE /\ coveragePushes' = <<>>
            /\ editorLookup' = Absent
            /\ statusBar' = ReleaseLoading(sb)
            /\ Logged(<<Status.rendering>>)

\* loadCacheAndProcess() after loadCache() fulfilled
ProcessLoaded(c, renderOk, hasEditor, lookupThrows, matches) ==
    /\ cycles[c].pc = "loaded"
    /\ RenderAndPush(statusBar, renderOk, hasEditor, lookupThrows, matches)
    /\ cycles' = [cycles EXCEPT ![c] =
           IF ~renderOk THEN [pc |-> "renderFailed", caller |-> "none"]
           ELSE IF cycles[c].caller = "none" THEN [pc |-> "fulfilled", caller |-> "none"]
           ELSE [pc |-> "processed", caller |-> cycles[c].caller]]
    /\ lastOp' = IF renderOk THEN "loadCacheAndProcess" ELSE "loadCacheAndProcess:threw"
    /\ UNCHANGED <<cache, isCoverageDisplayed, coverageWatcher, editorWatcher,
                   fsSubscriptions, editorSubscriptions>>

\* ProcessRejected with a fault: the failed cycle empties the cache and renders
\* it.
ProcessRejectedClearsCache(c) ==
    /\ cycles[c].pc = "rejected"
    /\ statusBar' = ReleaseLoading(statusBar)
    /\ cycles' = [cycles EXCEPT ![c] = [pc |-> "failed", caller |-> "none"]]
    /\ cache' = EmptyMap
    /\ renderCalls' = <<EmptyMap>>
    /\ lastOp' = "loadCacheAndProcess:threw"
    /\ parsed' = Absent
    /\ coveragePushes' = <<>>
    /\ editorLookup' = Absent
    /\ Logged(<<>>)
    /\ UNCHANGED <<isCoverageDisplayed, coverageWatcher, editorWatcher,
                   fsSubscriptions, editorSubscriptions>>

\* loadCacheAndProcess() after loadCache() rejected: only the finally block
\* runs, and the rejection goes on to the callers, which do nothing more.
ProcessRejected(c) ==
    /\ cycles[c].pc = "rejected"
    /\ statusBar' = ReleaseLoading(statusBar)
    /\ cycles' = [cycles EXCEPT ![c] = [pc |-> "failed", caller |-> "none"]]
    /\ Quiet("loadCacheAndProcess:threw")
    /\ Logged(<<>>)
    /\ UNCHANGED <<cache, isCoverageDisplayed, coverageWatcher, editorWatcher,
                   fsSubscriptions, editorSubscriptions>>

\* this.isCoverageDisplayed = true
DisplayedAfterLoad(old) == TRUE

\* displayForFile() after loadCacheAndProcess() fulfilled
DisplayForFileResumes(c) ==
    /\ cycles[c].pc = "processed"
    /\ isCoverageDisplayed' = DisplayedAfterLoad(isCoverageDisplayed)
    /\ cycles' = [cycles EXCEPT ![c] =
           IF cycles[c].caller = "watchWorkspace"
           THEN [pc |-> "displayed", caller |-> "watchWorkspace"]
           ELSE [pc |-> "fulfilled", caller |-> "none"]]
    /\ Quiet("displayForFile:resumed")
    /\ Logged(<<>>)
    /\ UNCHANGED <<statusBar, cache, coverageWatcher, editorWatcher,
                   fsSubscriptions, editorSubscriptions>>

\* watchWorkspace() after displayForFile() fulfilled: listenToFileSystem() and
\* listenToEditorEvents() create a new watcher each and store it in the field.
WatchWorkspaceResumes(c) ==
    /\ cycles[c].pc = "displayed"
    /\ coverageWatcher' = Some(c)
    /\ fsSubscriptions' = fsSubscriptions \cup {c}
    /\ editorWatcher' = Some(c)
    /\ editorSubscriptions' = editorSubscriptions \cup {c}
    /\ cycles' = [cycles EXCEPT ![c] = [pc |-> "fulfilled", caller |-> "none"]]
    /\ Quiet("watchWorkspace:resumed")
    /\ Logged(<<>>)
    /\ UNCHANGED <<statusBar, cache, isCoverageDisplayed>>

\* HandleEditorEvents with a fault: the coverage is marked displayed, as
\* displayForFile() does.
HandleEditorEventsMarksDisplayed(renderOk, hasEditor, lookupThrows, matches) ==
    /\ HostIdle
    /\ editorSubscriptions # {}
    /\ RenderAndPush(setLoading(statusBar, TRUE), renderOk, hasEditor,
                     lookupThrows, matches)
    /\ lastOp' = "handleEditorEvents"
    /\ isCoverageDisplayed' = TRUE
    /\ UNCHANGED <<cache, coverageWatcher, editorWatcher,
                   fsSubscriptions, editorSubscriptions, cycles>>

\* handleEditorEvents(), run by a registered editor-focus subscription
HandleEditorEvents(renderOk, hasEditor, lookupThrows, matches) ==
    /\ HostIdle
    /\ editorSubscriptions # {}
    /\ RenderAndPush(setLoading(statusBar, TRUE), renderOk, hasEditor,
                     lookupThrows, matches)
    /\ lastOp' = "handleEditorEvents"
    /\ UNCHANGED <<cache, isCoverageDisplayed, coverageWatcher, editorWatcher,
                   fsSubscriptions, editorSubscriptions, cycles>>

\* One step of some refresh cycle.
CycleStep ==
    \E c \in CycleIds :
        \/ \E ok \in BOOLEAN : FindCoverageFilesSettles(c, ok)
        \/ \E ok \in BOOLEAN : LoadDataFilesSettles(c, ok)
        \/ FilesToSectionsRejects(c)
        \/ \E dataCoverage \in ParsedMaps : FilesToSectionsResolves(c, dataCoverage)
        \/ \E renderOk, hasEditor, lookupThrows \in BOOLEAN :
               \E matches \in findSectionsForEditor(cache) :
                   ProcessLoaded(c, renderOk, hasEditor, lookupThrows, matches)
        \/ ProcessRejected(c)
        \/ DisplayForFileResumes(c)
        \/ WatchWorkspaceResumes(c)

EditorFocusNotification ==
    \E renderOk, hasEditor, lookupThrows \in BOOLEAN :
        \E matches \in findSectionsForEditor(cache) :
            HandleEditorEvents(renderOk, hasEditor, lookupThrows, matches)

Next ==
    \/ DisplayForFile
    \/ ToggleCoverage
    \/ WatchWorkspace
    \/ RemoveCoverageForCurrentEditor
    \/ Dispose
    \/ FileSystemNotification
    \/ EditorFocusNotification
    \/ CycleStep

Spec == Init /\ [][Next]_vars

\* The pending asynchronous steps are eventually run: a collaborator's promise
\* settles, and a settled promise's continuation is scheduled.
FairSpec == Spec /\ WF_vars(CycleStep)

\* ------------------------------------- setStatusBarCoverage on its own
\* The aggregate computation applied to caches of every shape: Sections with
\* and without branch data, with no lines found, with hits where no line was
\* found, with no line record at all.
AggregateSections ==
    {Section(Some(Counts(23, 40)), Absent),
     Section(Some(Counts(10, 10)), Absent),
     Section(Some(Counts(1, 2)), Some(Counts(1, 3))),
     Section(Some(Counts(9, 10)), Some(Counts(4, 5))),
     Section(Some(Counts(0, 0)), Absent),
     Section(Some(Counts(3, 0)), Some(Counts(0, 0))),
     Section(Absent, Absent)}

\* The caches: every mapping of some of the paths to those Sections.
AggregateMaps ==
    UNION {[D -> AggregateSections] : D \in SUBSET Paths}

\* A service whose cache holds one of those mappings.
AggregateInit ==
    /\ statusBar = NewStatusBar
    /\ cache \in AggregateMaps
    /\ isCoverageDisplayed = FALSE
    /\ coverageWatcher = Absent
    /\ editorWatcher = Absent
    /\ fsSubscriptions = {}
    /\ editorSubscriptions = {}
    /\ cycles = [c \in CycleIds |-> [pc |-> "unstarted", caller |-> "none"]]
    /\ serviceState = Status.ready
    /\ lastOp = "constructor"
    /\ parsed = Absent
    /\ renderCalls = <<>>
    /\ coveragePushes = <<>>
    /\ editorLookup = Absent
    /\ stateLog = <<>>

\* setStatusBarCoverage(this.cache, window.activeTextEditor)
SetStatusBarCoverage(hasEditor, lookupThrows, matches) ==
    LET args == StatusBarCoverageArgs(cache, hasEditor, lookupThrows, matches)
    IN /\ statusBar' = setStatusBarCoverage(statusBar, args)
       /\ coveragePushes' = <<args>>
       /\ editorLookup' = Some(EditorLookup(hasEditor, lookupThrows, matches))
       /\ lastOp' = "setStatusBarCoverage"
       /\ UNCHANGED <<cache, isCoverageDisplayed, coverageWatcher, editorWatcher,
                      fsSubscriptions, editorSubscriptions, cycles, serviceState,
                      parsed, renderCalls, stateLog>>

AggregateNext ==
    \E hasEditor, lookupThrows \in BOOLEAN :
        \E matches \in findSectionsForEditor(cache) :
            SetStatusBarCoverage(hasEditor, lookupThrows, matches)

AggregateSpec == AggregateInit /\ [][AggregateNext]_vars

\* ------------------------------------------- StatusBarToggler on its own
\* The presenter driven directly through its public methods.
LineInputs == {Undefined, NaN, Num(55), Num(80)}
TotalLineInputs == {Undefined, Num(0), Num(55), Num(59), Num(60), Num(90)}
BranchInputs == {Undefined, Infinity, Num(70)}
TotalBranchInputs == {Undefined, Num(39), Num(40), Num(70)}

PresenterStep(name, sb, pushes) ==
    /\ statusBar' = sb
    /\ lastOp' = name
    /\ coveragePushes' = pushes
    /\ UNCHANGED <<cache, isCoverageDisplayed, coverageWatcher, editorWatcher,
                   fsSubscriptions, editorSubscriptions, cycles, serviceState,
                   parsed, renderCalls, editorLookup, stateLog>>

\* statusBar.toggle(active)
StatusBarToggle(active) == PresenterStep("toggle", toggle(statusBar, active), <<>>)

\* statusBar.setLoading(loading)
StatusBarSetLoading(loading) ==
    PresenterStep("setLoading", setLoading(statusBar, loading), <<>>)

\* statusBar.setLoading(): loading defaults to !this.isLoading
StatusBarFlipLoading ==
    PresenterStep("setLoading", setLoading(statusBar, ~statusBar.isLoading), <<>>)

\* statusBar.setCoverage(line, totalLine, branch, totalBranch)
StatusBarSetCoverage(line, totalLine, branch, totalBranch) ==
    PresenterStep("setCoverage",
                  setCoverage(statusBar, line, totalLine, branch, totalBranch),
                  <<<<line, totalLine, branch, totalBranch>>>>)

PresenterNext ==
    \/ \E active \in BOOLEAN : StatusBarToggle(active)
    \/ \E loading \in BOOLEAN : StatusBarSetLoading(loading)
    \/ StatusBarFlipLoading
    \/ \E line \in LineInputs, totalLine \in TotalLineInputs,
          branch \in BranchInputs, totalBranch \in TotalBranchInputs :
           StatusBarSetCoverage(line, totalLine, branch, totalBranch)

PresenterSpec == Init /\ [][PresenterNext]_vars

\* ================================================================ claims

\* C1: every change of the cache installs either the empty mapping or exactly
\* the complete mapping one cycle's parse step returned in that step; the
\* cache is never a mixture of the entries of two cycles.
C1_CacheIsOneCyclesMapping ==
    [][\/ cache' = cache
       \/ cache' = EmptyMap
       \/ IsSome(parsed') /\ cache' = Get(parsed')]_vars

\* C1 witness: two cycles overlapped (the second started and assigned while the
\* first was in flight) and the first one's parse step has just replaced the
\* cache with its own non-empty mapping.
C1_Witness ==
    /\ lastOp = "filesToSections"
    /\ cache # EmptyMap
    /\ parsed = Some(cache)
    /\ \E a, b \in CycleIds :
           a < b /\ cycles[a].pc = "loaded" /\ cycles[b].pc \in Finished \cap Assigned

\* C2: stale results are discarded: once a cycle that started later has
\* assigned its mapping and completed, the parse step of an earlier cycle
\* leaves the cache as it is.
C2_StaleResultsDiscarded ==
    [][\A a, b \in CycleIds :
           (/\ a < b
            /\ cycles[a].pc = "filesToSections" /\ cycles'[a].pc = "loaded"
            /\ cycles[b].pc = "fulfilled")
           => cache' = cache]_vars

\* C3: whenever some refresh cycle is suspended at discovery, read or parse,
\* the presenter's isLoading is true.
C3_LoadingWhileSuspended ==
    (\E c \in CycleIds : cycles[c].pc \in Suspended) => statusBar.isLoading

\* C4: whenever no refresh cycle is in progress the presenter's isLoading is
\* false, and every refresh cycle in progress eventually terminates, on the
\* success path and on every failure path.
C4_LoadingReleased ==
    /\ [](InFlight = {} => ~statusBar.isLoading)
    /\ (InFlight # {}) ~> (InFlight = {})

\* C4 witness: a cycle has just terminated by a failure, nothing is in
\* progress and the loading flag is cleared.
C4_Witness ==
    /\ lastOp = "loadCacheAndProcess:threw"
    /\ InFlight = {}
    /\ ~statusBar.isLoading

\* C5: after a refresh cycle terminated by a failure, the ServiceState is
\* Error.
C5_FailureMovesToError ==
    lastOp = "loadCacheAndProcess:threw" => serviceState = Status.error

\* C6: after dispose() the cache is the empty mapping and the call has issued
\* exactly one render call, with the empty mapping.
C6_DisposeEmptiesAndRendersOnce ==
    lastOp = "dispose" => cache = EmptyMap /\ renderCalls = <<EmptyMap>>

\* C6 witness: dispose() has run while a refresh cycle was suspended and
\* after an earlier refresh had succeeded.
C6_Witness ==
    /\ lastOp = "dispose"
    /\ isCoverageDisplayed
    /\ \E c \in CycleIds : cycles[c].pc \in Suspended

\* C7: after dispose() no file system subscription and no editor-focus
\* subscription created by the service remains registered.
C7_DisposeReleasesAllSubscriptions ==
    lastOp = "dispose" => fsSubscriptions = {} /\ editorSubscriptions = {}

\* C8: toggleCoverage() called while coverage is not displayed starts one
\* full refresh cycle and renders nothing; when that call's displayForFile()
\* resumes, coverage is displayed; toggleCoverage() called while coverage is
\* displayed leaves it not displayed, renders the empty mapping once and
\* starts no cycle.
C8_ToggleTwice ==
    [][/\ (lastOp' = "toggleCoverage" /\ ~isCoverageDisplayed)
          => /\ Cardinality(Started') = Cardinality(Started) + 1
             /\ cycles'[Cardinality(Started')].pc = "findCoverageFiles"
             /\ renderCalls' = <<>>
       /\ lastOp' = "displayForFile:resumed" => isCoverageDisplayed'
       /\ (lastOp' = "toggleCoverage" /\ isCoverageDisplayed)
          => /\ ~isCoverageDisplayed'
             /\ renderCalls' = <<EmptyMap>>
             /\ cycles' = cycles]_vars

\* C8 witness: one full refresh cycle has run and resolved, and the next
\* toggleCoverage() has removed the coverage without starting a cycle.
C8_Witness ==
    /\ lastOp = "toggleCoverage"
    /\ renderCalls = <<EmptyMap>>
    /\ ~isCoverageDisplayed
    /\ Cardinality(Started) = 1
    /\ cycles[1].pc = "fulfilled"
    /\ fsSubscriptions = {}

\* C9: removeCoverageForCurrentEditor(), and toggleCoverage() when coverage is
\* displayed, render the empty mapping, set isCoverageDisplayed to false and
\* leave the cache as it was.
C9_RemoveKeepsCache ==
    [][(\/ lastOp' = "removeCoverageForCurrentEditor"
        \/ lastOp' = "toggleCoverage" /\ isCoverageDisplayed)
       => /\ cache' = cache
          /\ renderCalls' = <<EmptyMap>>
          /\ ~isCoverageDisplayed']_vars

\* C9 witness: a removal has run on a non-empty cache.
C9_Witness ==
    /\ lastOp = "removeCoverageForCurrentEditor"
    /\ cache # EmptyMap
    /\ ~isCoverageDisplayed
    /\ renderCalls = <<EmptyMap>>

\* C10: after setCoverage(line, totalLine, branch, totalBranch): four values
\* present give "{line},{branch}%/{totalLine},{totalBranch}%" and
\* isWarn = (totalLine < 60 or totalBranch < 40); line and totalLine alone
\* give "{line}%/{totalLine}%"; line alone gives "{line}%"; no line clears the
\* text; and isWarn is false in the last three cases whatever it was before.
C10_SetCoverageCases ==
    coveragePushes # <<>> =>
        LET line == coveragePushes[1][1]
            totalLine == coveragePushes[1][2]
            branch == coveragePushes[1][3]
            totalBranch == coveragePushes[1][4]
            P(x) == x.k = "number"
        IN /\ (P(line) /\ P(totalLine) /\ P(branch) /\ P(totalBranch))
              => /\ statusBar.lineCoverage =
                        <<ToString(line.v) \o "," \o ToString(branch.v) \o "%/"
                          \o ToString(totalLine.v) \o "," \o ToString(totalBranch.v)
                          \o "%">>
                 /\ statusBar.isWarn = (totalLine.v < 60 \/ totalBranch.v < 40)
           /\ (P(line) /\ P(totalLine) /\ ~P(branch) /\ ~P(totalBranch))
              => /\ statusBar.lineCoverage =
                        <<ToString(line.v) \o "%/" \o ToString(totalLine.v) \o "%">>
                 /\ ~statusBar.isWarn
           /\ (P(line) /\ ~P(totalLine) /\ ~P(branch) /\ ~P(totalBranch))
              => /\ statusBar.lineCoverage = <<ToString(line.v) \o "%">>
                 /\ ~statusBar.isWarn
           /\ ~P(line) => statusBar.lineCoverage = <<>> /\ ~statusBar.isWarn
           /\ coveragePushes[1] = <<Num(55), Num(55), Num(70), Num(70)>>
              => statusBar.lineCoverage = <<"55,70%/55,70%">> /\ statusBar.isWarn
           /\ coveragePushes[1] = <<Num(80), Num(90), Undefined, Undefined>>
              => statusBar.lineCoverage = <<"80%/90%">> /\ ~statusBar.isWarn

\* C10 witness: setCoverage(80, 90) has run on an active presenter and left
\* the two-value text and no warning.
C10_Witness ==
    /\ lastOp = "setCoverage"
    /\ coveragePushes = <<<<Num(80), Num(90), Undefined, Undefined>>>>
    /\ statusBar.lineCoverage = <<"80%/90%">>
    /\ statusBar.isActive = <<TRUE>>
    /\ statusBar.item.backgroundColor = <<>>

\* ---- C11
\* The first Section the lookup of the last setStatusBarCoverage call returned
FirstMatch == Get(editorLookup).matches[1]

\* The last step was a setStatusBarCoverage call that met one of the three
\* cases without a per-file percentage: no active editor, no matching Section,
\* or a first match in which no line was found.
NoFileCoverageCase ==
    /\ lastOp = "setStatusBarCoverage"
    /\ IsSome(editorLookup)
    /\ \/ ~Get(editorLookup).hasEditor
       \/ Get(editorLookup).matches = <<>>
       \/ Field(FirstMatch.lines, "found") = Num(0)

\* C11: setStatusBarCoverage completes with one setCoverage call and presents
\* "no coverage" (the coverage text cleared, no warning, no per-file number
\* pushed) when there is no active editor, when the lookup returns no matching
\* Section or raises, and when the first match has no line found, whatever
\* its hits and whatever the cache.
C11_NoCoverageCases ==
    NoFileCoverageCase =>
        /\ Len(coveragePushes) = 1
        /\ ~IsFinite(coveragePushes[1][1])
        /\ statusBar.lineCoverage = Absent
        /\ ~statusBar.isWarn
        /\ statusBar.item.backgroundColor = Absent

\* C11 witness: the first match has 3 hits and no line found, in a cache whose
\* totals are numbers; the per-file quotient is Infinity and nothing is shown.
C11_Witness ==
    /\ NoFileCoverageCase
    /\ Get(editorLookup).matches # <<>>
    /\ FirstMatch.lines = Some(Counts(3, 0))
    /\ coveragePushes[1][1] = Infinity
    /\ IsFinite(coveragePushes[1][2])
    /\ statusBar.lineCoverage = Absent

\* ---- C12
\* round(100 * a / b) of the exact quotient, a half rounding up as Math.round
\* does, for integers a >= 0, b > 0
ReferencePercent(a, b) == (200 * a + b) \div (2 * b)

RECURSIVE ReferenceSum(_, _, _, _)
\* the sum of one count over the Sections, a Section without the group
\* contributing 0
ReferenceSum(sections, keys, group, field) ==
    IF keys = {} THEN 0
    ELSE LET key == CHOOSE x \in keys : TRUE
             counts == sections[key][group]
         IN ReferenceSum(sections, keys \ {key}, group, field)
            + (IF IsSome(counts) THEN Get(counts)[field].v ELSE 0)

\* The four reference values for the cache and the first match
ReferenceArgs(sections, match) ==
    LET hit(group) == ReferenceSum(sections, DOMAIN sections, group, "hit")
        found(group) == ReferenceSum(sections, DOMAIN sections, group, "found")
        total(group) == IF found(group) = 0 THEN 0
                        ELSE ReferencePercent(hit(group), found(group))
        branches == IF IsSome(match.branches) THEN Get(match.branches)
                    ELSE Counts(0, 1)
    IN <<Num(ReferencePercent(Get(match.lines).hit.v, Get(match.lines).found.v)),
         Num(total("lines")),
         Num(ReferencePercent(branches.hit.v, branches.found.v)),
         Num(total("branches"))>>

\* Every Section has a line record, and a branch record, where there is one,
\* has branches found.
WellFormed(sections) ==
    \A p \in DOMAIN sections :
        /\ IsSome(sections[p].lines)
        /\ IsSome(sections[p].branches) => Get(sections[p].branches).found.v > 0

\* The last step was a setStatusBarCoverage call on a well-formed cache whose
\* lookup returned a first match with lines found.
FileCoverageCase ==
    /\ lastOp = "setStatusBarCoverage"
    /\ IsSome(editorLookup)
    /\ Get(editorLookup).matches # <<>>
    /\ WellFormed(cache)
    /\ IsSome(FirstMatch.lines)
    /\ Get(FirstMatch.lines).found.v > 0

\* C12: for a cache of non-negative integer counts and a first match with
\* lines found, the four values pushed to the presenter equal the reference:
\* the rounded exact percentages of the first match's lines and branches (no
\* branch data counting as 0 of 1) and of the sums over the cache (0 when
\* nothing was found).
C12_PushEqualsReference ==
    FileCoverageCase => coveragePushes = <<ReferenceArgs(cache, FirstMatch)>>

\* ---- C13
\* C13: in every state reached by toggle, setLoading and setCoverage calls the
\* presented item is a function of isActive, isLoading, the coverage text and
\* isWarn: the loading text whenever loading; otherwise, when active, the icon,
\* the coverage text or "No", and the label; otherwise the start-watching
\* prompt.  Command and tooltip are the remove-watch ones exactly when active,
\* and the background is the warning colour exactly when isWarn and active.
C13_ItemIsDerived ==
    LET active == statusBar.isActive = Some(TRUE)
        shown == IF IsSome(statusBar.lineCoverage) THEN Get(statusBar.lineCoverage)
                 ELSE "No"
        item == statusBar.item
    IN /\ statusBar.isLoading => item.text = "$(loading~spin) Cov"
       /\ ~statusBar.isLoading /\ active =>
              item.text = "$(circle-large-outline) " \o shown \o " Cov"
       /\ ~statusBar.isLoading /\ ~active => item.text = "$(circle-large-outline) Watch"
       /\ item.command = (IF active THEN removeCommand ELSE watchCommand)
       /\ item.tooltip = (IF active THEN removeWatchToolTip ELSE watchToolTip)
       /\ item.backgroundColor =
              (IF statusBar.isWarn /\ active THEN Some(errorBackground) ELSE Absent)

\* C13 witness: active, not loading, warned, with a four-value coverage text
\* shown on the warning background.
C13_Witness ==
    /\ statusBar.isActive = Some(TRUE)
    /\ ~statusBar.isLoading
    /\ statusBar.isWarn
    /\ statusBar.lineCoverage = Some("55,70%/59,70%")
    /\ statusBar.item.text = "$(circle-large-outline) 55,70%/59,70% Cov"
    /\ statusBar.item.backgroundColor = Some(errorBackground)

\* ---- C14
\* C14: the ServiceState starts at Initializing, a refresh cycle starts by
\* reporting Loading, and Ready is reported only by a step that has reported
\* Rendering just before it and has performed the render call and the
\* aggregate push: never between Loading and Rendering.
C14_LoadingRenderingReady ==
    /\ lastOp = "constructor" => serviceState = Status.initializing
    /\ lastOp \in {"displayForFile", "toggleCoverage", "watchWorkspace", "fileSystem"}
           /\ stateLog # <<>>
       => stateLog = <<Status.loading>>
    /\ \A i \in 1..Len(stateLog) :
           stateLog[i] = Status.ready =>
               /\ i > 1
               /\ stateLog[i - 1] = Status.rendering
               /\ Len(renderCalls) = 1
               /\ Len(coveragePushes) = 1

\* ---- C15
\* The step is a run of handleEditorEvents.
FocusStep == lastOp' = "handleEditorEvents"

\* The step starts no refresh cycle and runs no discovery, read or parse; it
\* leaves the cache, isCoverageDisplayed and the subscriptions as they were
\* and ends with no continuation pending and the loading flag cleared.
FocusFrame ==
    /\ UNCHANGED <<cache, isCoverageDisplayed, cycles, coverageWatcher,
                   editorWatcher, fsSubscriptions, editorSubscriptions>>
    /\ parsed' = Absent
    /\ HostIdle'
    /\ ~statusBar'.isLoading

\* The step has pushed once, the aggregate of the cache and the editor lookup.
FocusPush ==
    /\ Len(coveragePushes') = 1
    /\ IsSome(editorLookup')
    /\ coveragePushes'[1] =
           StatusBarCoverageArgs(cache, Get(editorLookup').hasEditor,
                                 Get(editorLookup').lookupThrows,
                                 Get(editorLookup').matches)
    /\ statusBar'.lineCoverage =
           setStatusBarCoverage(statusBar, coveragePushes'[1]).lineCoverage

\* C15 as stated: an editor-focus notification runs no discovery, read or
\* parse, leaves the cache and isCoverageDisplayed unchanged, has no
\* suspension point, and issues exactly one render call with the current cache
\* followed by one aggregate push computed from that cache and the editor.
C15_FocusAlwaysPushes ==
    [][FocusStep => FocusFrame /\ renderCalls' = <<cache>> /\ FocusPush]_vars

\* C15 amended: as stated, except that the aggregate push follows only when
\* the render call returns; when it raises, READY is not reported and nothing
\* is pushed.
C15_FocusIsLightweight ==
    [][FocusStep =>
          /\ FocusFrame
          /\ renderCalls' = <<cache>>
          /\ IF Status.ready \in Range(stateLog') THEN FocusPush
             ELSE coveragePushes' = <<>>]_vars

\* C15 witness: a focus notification handled while a refresh cycle is
\* suspended: the non-empty cache was rendered and a per-file percentage pushed.
C15_Witness ==
    /\ lastOp = "handleEditorEvents"
    /\ \E c \in CycleIds : cycles[c].pc \in Suspended
    /\ cache # EmptyMap
    /\ renderCalls = <<cache>>
    /\ Len(coveragePushes) = 1
    /\ IsFinite(coveragePushes[1][1])
    /\ isCoverageDisplayed

\* ---- C16
\* C16: a watchWorkspace() call registers no subscription before its initial
\* refresh cycle has run to its end, and when that cycle terminates, by success
\* or by failure, the call's two subscriptions are registered, so that later
\* notifications start refresh cycles.
C16_WatchRegistersAfterInitialCycle ==
    [][\A c \in CycleIds :
          /\ cycles'[c].caller = "watchWorkspace" =>
                 c \notin fsSubscriptions' \cup editorSubscriptions'
          /\ cycles[c].caller = "watchWorkspace" /\ cycles'[c].pc \in Finished =>
                 c \in fsSubscriptions' /\ c \in editorSubscriptions']_vars

\* ---- C17
\* C17: every step of a refresh cycle up to and including the failure of its
\* discovery, read or parse leaves the cache and isCoverageDisplayed as they
\* were, renders nothing and pushes nothing; and a step of a refresh cycle
\* writes the cache only when the cycle's discovery and read have succeeded and
\* its parse resolves, with the parsed mapping.
C17_FailedCycleLeavesNoTrace ==
    [][/\ \A c \in CycleIds :
              cycles'[c].pc # cycles[c].pc
              /\ cycles'[c].pc \in Suspended \cup {"rejected", "failed"}
              => /\ cache' = cache
                 /\ isCoverageDisplayed' = isCoverageDisplayed
                 /\ renderCalls' = <<>>
                 /\ coveragePushes' = <<>>
       /\ cache' # cache /\ cycles' # cycles
              => \E c \in CycleIds :
                     /\ cycles[c].pc = "filesToSections"
                     /\ cycles'[c].pc = "loaded"
                     /\ parsed' = Some(cache')]_vars

\* C17 witness: a cycle has just failed in its discovery, read or parse while
\* the cache holds an earlier cycle's mapping and the coverage is displayed.
C17_Witness ==
    /\ lastOp = "loadCacheAndProcess:threw"
    /\ \E c \in CycleIds : cycles[c].pc = "failed"
    /\ \A c \in CycleIds : cycles[c].pc # "renderFailed"
    /\ cache # EmptyMap
    /\ isCoverageDisplayed
    /\ renderCalls = <<>>
    /\ coveragePushes = <<>>

\* ---- C18
\* C18: a step of a refresh cycle that was in progress when dispose() ran, taken
\* right after the disposal, leaves the cache empty, renders no non-empty
\* mapping and pushes no aggregate.
C18_DisposalIsFinal ==
    [][lastOp = "dispose" /\ Started' = Started /\ cycles' # cycles
       => /\ cache = EmptyMap
          /\ cache' = EmptyMap
          /\ \A i \in 1..Len(renderCalls') : renderCalls'[i] = EmptyMap
          /\ coveragePushes' = <<>>]_vars

\* ---- C19
\* The last step was removeCoverageForCurrentEditor() or a toggleCoverage()
\* that removed.
JustRemoved ==
    /\ lastOp \in {"removeCoverageForCurrentEditor", "toggleCoverage"}
    /\ renderCalls = <<EmptyMap>>

\* The step is no explicit displayForFile(), toggleCoverage() or
\* watchWorkspace() call: a notification, or a step of a cycle in flight.
NoExplicitCall == lastOp' \notin {"displayForFile", "toggleCoverage", "watchWorkspace"}

\* C19: right after a removal, a step that is no explicit displayForFile(),
\* toggleCoverage() or watchWorkspace() call (a file system or editor-focus
\* notification, a step of a refresh cycle in flight) leaves
\* isCoverageDisplayed false and renders no non-empty mapping.
C19_RemovalPersists ==
    [][JustRemoved /\ NoExplicitCall
       => /\ ~isCoverageDisplayed
          /\ ~isCoverageDisplayed'
          /\ \A i \in 1..Len(renderCalls') : renderCalls'[i] = EmptyMap]_vars

\* ---- C20
\* The last step was a setStatusBarCoverage call on a cache whose Sections all
\* have a line record, and it pushed a numeric per-file line percentage.
NumericFileCoverageCase ==
    /\ lastOp = "setStatusBarCoverage"
    /\ Len(coveragePushes) = 1
    /\ IsFinite(coveragePushes[1][1])
    /\ \A p \in DOMAIN cache : IsSome(cache[p].lines)

\* C20: whenever a numeric per-file line percentage is pushed for a cache of
\* well-formed Sections, the four pushed values are numbers and the coverage
\* text has the four-value form; and when no Section of the cache carries
\* branch data, the total branch percentage is 0 and isWarn is true after the
\* push, whatever the line coverage.
C20_FourValuesAndBranchWarning ==
    NumericFileCoverageCase =>
        LET push == coveragePushes[1]
        IN /\ \A i \in 1..4 : IsFinite(push[i])
           /\ statusBar.lineCoverage =
                  Some(Str(push[1]) \o "," \o Str(push[3]) \o "%/"
                       \o Str(push[2]) \o "," \o Str(push[4]) \o "%")
           /\ (\A p \in DOMAIN cache : cache[p].branches = Absent)
                  => push[4] = Num(0) /\ statusBar.isWarn

\* C20 witness: every line of the only file is hit and there is no branch
\* data: 100% line coverage is pushed, with 0% branches and the warning.
C20_Witness ==
    /\ NumericFileCoverageCase
    /\ \A p \in DOMAIN cache : cache[p].branches = Absent
    /\ coveragePushes = <<<<Num(100), Num(100), Num(0), Num(0)>>>>
    /\ statusBar.lineCoverage = Some("100,0%/100,0%")
    /\ statusBar.isWarn
====
